---- MODULE Spec2Model ----
(***************************************************************************)
(* The io-ts classroom: the decode/encode adapter of util.ts over the      *)
(* codecs that index.ts defines.                                           *)
(*                                                                         *)
(* JavaScript values are tagged records.  A string value holds its         *)
(* characters (a sequence of one-character strings), so that JSON.parse,   *)
(* JSON.stringify and the palindrome test work on characters.  A finite    *)
(* number is a normalised decimal  (-1)^neg * coef * 10^exp;  the texts    *)
(* and numbers of this model have few digits, where the decimal and the    *)
(* double agree.  Error messages are never read back by the program and    *)
(* are kept as plain strings.                                              *)
(***************************************************************************)
EXTENDS Integers, Sequences, FiniteSets, TLC

VARIABLES registry, trip, last

vars == <<registry, trip, last>>

(***************************************************************************)
(* Bounds of the model.                                                    *)
(***************************************************************************)
\* the longest arrayOfTuples the inputs hold
MaxTuples == 2

(***************************************************************************)
(* JavaScript values.                                                      *)
(***************************************************************************)
Undefined == [t |-> "undefined"]

Null == [t |-> "null"]

Bool(b) == [t |-> "boolean", b |-> b]

Str(cs) == [t |-> "string", cs |-> cs]

Finite(neg, coef, exp) ==
  [t |-> "number", k |-> "finite", neg |-> neg, coef |-> coef, exp |-> exp]

NaN == [t |-> "number", k |-> "NaN", neg |-> FALSE, coef |-> 0, exp |-> 0]

Infinity == [t |-> "number", k |-> "Infinity", neg |-> FALSE, coef |-> 0, exp |-> 0]

NegInfinity == [t |-> "number", k |-> "Infinity", neg |-> TRUE, coef |-> 0, exp |-> 0]

Arr(items) == [t |-> "array", items |-> items]

\* props: the own enumerable properties, <<key, value>> in insertion order
Obj(props) == [t |-> "object", props |-> props]

\* a property value that refers back to the object that holds it
Cycle == [t |-> "cycle"]

\* a Date object with time value tv (a number value, NaN when invalid)
DateOf(tv) == [t |-> "date", tv |-> tv]

HasKey(o, key) == \E j \in 1..Len(o.props) : o.props[j][1] = key

\* o[key]: undefined when o has no such property
Get(o, key) ==
  IF HasKey(o, key)
  THEN LET j == CHOOSE j \in 1..Len(o.props) : o.props[j][1] = key
       IN  o.props[j][2]
  ELSE Undefined

(***************************************************************************)
(* Results and errors.                                                     *)
(***************************************************************************)
\* fp-ts Either: right(value) | left(errors)
Right(v) == [ok |-> TRUE, value |-> v]

Left == [ok |-> FALSE, value |-> Undefined]

\* an Error object: its constructor and its message
Error(class, message) == [class |-> class, message |-> message]

\* how a call ends
Return(v) == [kind |-> "return", value |-> v, error |-> Error("", "")]

Throw(e) == [kind |-> "throw", value |-> Undefined, error |-> e]

(***************************************************************************)
(* Characters and decimal digits.                                          *)
(***************************************************************************)
RECURSIVE Join(_)
\* Array.prototype.join(''): the string of a sequence of characters
Join(cs) == IF cs = <<>> THEN "" ELSE Head(cs) \o Join(Tail(cs))

Digits == <<"0", "1", "2", "3", "4", "5", "6", "7", "8", "9">>

IsDigit(ch) == \E d \in 1..10 : Digits[d] = ch

DigitVal(ch) == (CHOOSE d \in 1..10 : Digits[d] = ch) - 1

RECURSIVE NatChars(_)
\* the decimal digits of a natural number
NatChars(n) ==
  IF n < 10 THEN <<Digits[n + 1]>>
  ELSE NatChars(n \div 10) \o <<Digits[(n % 10) + 1]>>

RECURSIVE Zeros(_)
Zeros(n) == IF n <= 0 THEN <<>> ELSE <<"0">> \o Zeros(n - 1)

RECURSIVE Pow10(_)
Pow10(n) == IF n <= 0 THEN 1 ELSE 10 * Pow10(n - 1)

(***************************************************************************)
(* Number::toString (ECMA-262 6.1.6.1.20), radix 10.                       *)
(***************************************************************************)
NumberToChars(x) ==
  IF x.k = "NaN" THEN <<"N", "a", "N">>
  ELSE IF x.k = "Infinity"
  THEN (IF x.neg THEN <<"-">> ELSE <<>>)
         \o <<"I", "n", "f", "i", "n", "i", "t", "y">>
  ELSE IF x.coef = 0 THEN <<"0">>
  ELSE LET s == NatChars(x.coef)
           k == Len(s)
           n == k + x.exp
           e == n - 1
           body ==
             IF k <= n /\ n <= 21 THEN s \o Zeros(n - k)
             ELSE IF 0 < n /\ n <= 21
             THEN SubSeq(s, 1, n) \o <<".">> \o SubSeq(s, n + 1, k)
             ELSE IF -6 < n /\ n <= 0
             THEN <<"0", ".">> \o Zeros(-n) \o s
             ELSE (IF k = 1 THEN s
                   ELSE <<s[1], ".">> \o SubSeq(s, 2, k))
                  \o <<"e">>
                  \o (IF e < 0 THEN <<"-">> \o NatChars(-e)
                      ELSE <<"+">> \o NatChars(e))
       IN  (IF x.neg THEN <<"-">> ELSE <<>>) \o body

(***************************************************************************)
(* Date: the constructor's TimeClip and Date.prototype.toISOString.        *)
(***************************************************************************)
RECURSIVE Normalise(_, _, _)
\* the normalised decimal: no trailing zero in coef, and 0 * 10^0 for zero
Normalise(neg, coef, exp) ==
  IF coef = 0 THEN Finite(neg, 0, 0)
  ELSE IF coef % 10 = 0 THEN Normalise(neg, coef \div 10, exp + 1)
  ELSE Finite(neg, coef, exp)

\* the Number of a natural number literal
Num(n) == Normalise(FALSE, n, 0)

\* -x
Minus(x) == [x EXCEPT !.neg = ~x.neg]

\* |x| > 8.64e15, for a finite x
BeyondTimeRange(x) ==
  LET n == Len(NatChars(x.coef)) + x.exp
  IN  IF x.coef = 0 \/ n < 16 THEN FALSE
      ELSE IF n > 16 THEN TRUE
      ELSE IF x.exp >= 13 THEN x.coef * Pow10(x.exp - 13) > 864
      ELSE x.coef > 864 * Pow10(13 - x.exp)

\* TimeClip(ToNumber(u)) (ECMA-262 21.4.1.31): the time value of new Date(u),
\* an integral number of milliseconds, or NaN
TimeClip(x) ==
  IF x.k # "finite" \/ BeyondTimeRange(x) THEN NaN
  ELSE IF x.exp >= 0 THEN Finite(x.coef # 0 /\ x.neg, x.coef, x.exp)
  ELSE IF -x.exp > 9 THEN Finite(FALSE, 0, 0)
  ELSE LET c == x.coef \div Pow10(-x.exp)
       IN  Normalise(c # 0 /\ x.neg, c, 0)

\* new Date(u)
NewDate(u) == DateOf(TimeClip(u))

RECURSIVE LongDiv(_, _, _, _)
\* long division of a decimal digit string by d: <<quotient, remainder>>
LongDiv(cs, d, q, r) ==
  IF cs = <<>> THEN <<q, r>>
  ELSE LET r1 == r * 10 + DigitVal(Head(cs))
       IN  LongDiv(Tail(cs), d, q * 10 + (r1 \div d), r1 % d)

\* n in at least w digits
Pad(n, w) == Zeros(w - Len(NatChars(n))) \o NatChars(n)

\* the civil date <<year, month, day>> of a count of days: of the 400-year era
\* era, the day doe of the era, the year yoe of the era, the day doy of the
\* year counted from March 1, and the month mp counted from March
CivilOf(y, m, d) == <<y + (IF m <= 2 THEN 1 ELSE 0), m, d>>

CivilFromMp(era, yoe, doy, mp) ==
  CivilOf(yoe + era * 400, IF mp < 10 THEN mp + 3 ELSE mp - 9,
          doy - (153 * mp + 2) \div 5 + 1)

CivilFromDoy(era, yoe, doy) == CivilFromMp(era, yoe, doy, (5 * doy + 2) \div 153)

CivilFromYoe(era, doe, yoe) ==
  CivilFromDoy(era, yoe, doe - (365 * yoe + yoe \div 4 - yoe \div 100))

CivilFromDoe(era, doe) ==
  CivilFromYoe(era, doe,
    (doe - doe \div 1460 + doe \div 36524 - doe \div 146096) \div 365)

CivilFromEra(z, era) == CivilFromDoe(era, z - era * 146097)

\* days counted from 1970-01-01
CivilFromDays(day) == CivilFromEra(day + 719468, (day + 719468) \div 146097)

\* the year in four digits, or a sign and six digits outside 0..9999
YearChars(y) ==
  IF 0 <= y /\ y <= 9999 THEN Pad(y, 4)
  ELSE IF y < 0 THEN <<"-">> \o Pad(-y, 6)
  ELSE <<"+">> \o Pad(y, 6)

\* YYYY-MM-DDTHH:mm:ss.sssZ of a date ymd and the milliseconds ms of its day
ISOFormat(ymd, ms) ==
  YearChars(ymd[1]) \o <<"-">> \o Pad(ymd[2], 2) \o <<"-">> \o Pad(ymd[3], 2)
    \o <<"T">>
    \o Pad(ms \div 3600000, 2) \o <<":">>
    \o Pad((ms \div 60000) % 60, 2) \o <<":">>
    \o Pad((ms \div 1000) % 60, 2) \o <<".">>
    \o Pad(ms % 1000, 3) \o <<"Z">>

\* Day(t) and the time within the day of t = -1^neg * (q * msPerDay + r)
ISOFromQuotient(neg, qr, msPerDay) ==
  ISOFormat(
    CivilFromDays(IF ~neg THEN qr[1] ELSE IF qr[2] = 0 THEN -qr[1] ELSE -qr[1] - 1),
    IF ~neg \/ qr[2] = 0 THEN qr[2] ELSE msPerDay - qr[2])

\* Date.prototype.toISOString of a valid time value tv (ECMA-262 21.4.4.36,
\* 21.4.1.3 to 21.4.1.15)
ISOChars(tv) ==
  ISOFromQuotient(tv.neg,
                  LongDiv(NatChars(tv.coef) \o Zeros(tv.exp), 86400000, 0, 0),
                  86400000)

\* a.toISOString(): a RangeError for an invalid date
ToISOString(a) ==
  IF a.tv.k = "NaN" THEN Throw(Error("RangeError", "Invalid time value"))
  ELSE Return(Str(ISOChars(a.tv)))

(***************************************************************************)
(* JSON.stringify (ECMA-262 25.5.2).                                       *)
(***************************************************************************)
RECURSIVE QuoteBody(_)
QuoteBody(cs) ==
  IF cs = <<>> THEN <<>>
  ELSE (IF Head(cs) = "\"" THEN <<"\\", "\"">>
        ELSE IF Head(cs) = "\\" THEN <<"\\", "\\">>
        ELSE <<Head(cs)>>) \o QuoteBody(Tail(cs))

\* QuoteJSONString: the characters in double quotes, quote and backslash escaped
QuoteJSONString(cs) == <<"\"">> \o QuoteBody(cs) \o <<"\"">>

Text(cs) == [st |-> "text", cs |-> cs]

NoText == [st |-> "undefined", cs |-> <<>>]

Circular == [st |-> "cycle", cs |-> <<>>]

NullChars == <<"n", "u", "l", "l">>

TrueChars == <<"t", "r", "u", "e">>

FalseChars == <<"f", "a", "l", "s", "e">>

\* the text of an array or object between its brackets
Bracketed(open, r, close) ==
  IF r.st = "cycle" THEN Circular ELSE Text(<<open>> \o r.cs \o <<close>>)

\* an element without text is written null
ElementChars(h) == IF h.st = "undefined" THEN NullChars ELSE h.cs

\* the element h before the elements r; last: h is the last one
ConsElement(h, r, isLast) ==
  IF h.st = "cycle" \/ r.st = "cycle" THEN Circular
  ELSE IF isLast THEN Text(ElementChars(h))
  ELSE Text(ElementChars(h) \o <<",">> \o r.cs)

\* the member key: h before the members r; a property without text is left out
ConsMember(key, h, r) ==
  IF h.st = "cycle" \/ r.st = "cycle" THEN Circular
  ELSE IF h.st = "undefined" THEN r
  ELSE IF r.cs = <<>> THEN Text(QuoteJSONString(key) \o <<":">> \o h.cs)
  ELSE Text(QuoteJSONString(key) \o <<":">> \o h.cs \o <<",">> \o r.cs)

RECURSIVE SerializeJSONProperty(_), SerializeElements(_), SerializeMembers(_)
\* the text of a value; "undefined" for what JSON leaves out; "cycle" when the
\* value holds a reference to an object being serialized
SerializeJSONProperty(v) ==
  CASE v.t = "undefined" -> NoText
    [] v.t = "null" -> Text(NullChars)
    [] v.t = "boolean" -> Text(IF v.b THEN TrueChars ELSE FalseChars)
    [] v.t = "string" -> Text(QuoteJSONString(v.cs))
    [] v.t = "number" ->
         Text(IF v.k = "finite" THEN NumberToChars(v) ELSE NullChars)
    [] v.t = "date" ->
         \* Date.prototype.toJSON: null for an invalid date
         Text(IF v.tv.k = "NaN" THEN NullChars
              ELSE QuoteJSONString(ISOChars(v.tv)))
    [] v.t = "array" -> Bracketed("[", SerializeElements(v.items), "]")
    [] v.t = "object" -> Bracketed("{", SerializeMembers(v.props), "}")
    [] v.t = "cycle" -> Circular

\* SerializeJSONArray
SerializeElements(items) ==
  IF items = <<>> THEN Text(<<>>)
  ELSE ConsElement(SerializeJSONProperty(Head(items)),
                   SerializeElements(Tail(items)), Len(items) = 1)

\* SerializeJSONObject
SerializeMembers(props) ==
  IF props = <<>> THEN Text(<<>>)
  ELSE ConsMember(Head(props)[1], SerializeJSONProperty(Head(props)[2]),
                  SerializeMembers(Tail(props)))

\* what JSON.stringify gives for the text r of its argument
StringifyResult(r) ==
  CASE r.st = "text" -> Return(Str(r.cs))
    [] r.st = "undefined" -> Return(Undefined)
    [] r.st = "cycle" ->
         Throw(Error("TypeError", "Converting circular structure to JSON"))

\* JSON.stringify(value): a string, undefined, or a TypeError for a cycle
JSONStringify(v) == StringifyResult(SerializeJSONProperty(v))

(***************************************************************************)
(* JSON.parse (ECMA-262 25.5.1, the grammar of ECMA-404).                  *)
(***************************************************************************)
ParseFail == [ok |-> FALSE, value |-> Undefined, rest |-> <<>>]

Parsed(v, rest) == [ok |-> TRUE, value |-> v, rest |-> rest]

IsWhitespace(ch) == ch = " "

RECURSIVE SkipWS(_)
SkipWS(cs) ==
  IF cs # <<>> /\ IsWhitespace(Head(cs)) THEN SkipWS(Tail(cs)) ELSE cs

StartsWith(cs, pre) == Len(cs) >= Len(pre) /\ SubSeq(cs, 1, Len(pre)) = pre

Drop(cs, n) == SubSeq(cs, n + 1, Len(cs))

RECURSIVE TakeDigits(_)
\* the longest prefix of digits
TakeDigits(cs) ==
  IF cs # <<>> /\ IsDigit(Head(cs)) THEN <<Head(cs)>> \o TakeDigits(Tail(cs))
  ELSE <<>>

RECURSIVE DigitsToNat(_, _)
DigitsToNat(cs, acc) ==
  IF cs = <<>> THEN acc ELSE DigitsToNat(Tail(cs), acc * 10 + DigitVal(Head(cs)))

RECURSIVE StripLeadingZeros(_)
StripLeadingZeros(cs) ==
  IF cs # <<>> /\ Head(cs) = "0" THEN StripLeadingZeros(Tail(cs)) ELSE cs

\* the Number of significant digits sig and a power of ten
SignificandToNumber(neg, sig, exp) ==
  IF sig = <<>> THEN Finite(neg, 0, 0)
  ELSE IF Len(sig) + exp > 309 THEN (IF neg THEN NegInfinity ELSE Infinity)
  ELSE IF Len(sig) + exp < -323 THEN Finite(neg, 0, 0)
  ELSE Normalise(neg, DigitsToNat(sig, 0), exp)

\* the Number of a decimal literal: sign, digits, and a power of ten; beyond
\* the range of a double it is Infinity, below it zero
DecimalToNumber(neg, digits, exp) ==
  SignificandToNumber(neg, StripLeadingZeros(digits), exp)

\* the digits eDig of the exponent were read
NumberEnd(neg, digits, nFrac, eNeg, eDig, rest) ==
  IF eDig = <<>> THEN ParseFail
  ELSE Parsed(DecimalToNumber(neg, digits,
                (IF eNeg THEN -DigitsToNat(eDig, 0) ELSE DigitsToNat(eDig, 0))
                  - nFrac),
              Drop(rest, Len(eDig)))

\* exp: (e | E) (- | +)? digit+, cs after the e
NumberExpSign(neg, digits, nFrac, cs) ==
  IF cs # <<>> /\ Head(cs) \in {"-", "+"}
  THEN NumberEnd(neg, digits, nFrac, Head(cs) = "-", TakeDigits(Tail(cs)), Tail(cs))
  ELSE NumberEnd(neg, digits, nFrac, FALSE, TakeDigits(cs), cs)

NumberExp(neg, digits, nFrac, cs) ==
  IF cs # <<>> /\ Head(cs) \in {"e", "E"}
  THEN NumberExpSign(neg, digits, nFrac, Tail(cs))
  ELSE Parsed(DecimalToNumber(neg, digits, -nFrac), cs)

\* the digits frac of the fraction were read
NumberFracEnd(neg, int, frac, rest) ==
  IF frac = <<>> THEN ParseFail
  ELSE NumberExp(neg, int \o frac, Len(frac), Drop(rest, Len(frac)))

\* frac: . digit+
NumberFrac(neg, int, cs) ==
  IF cs # <<>> /\ Head(cs) = "."
  THEN NumberFracEnd(neg, int, TakeDigits(Tail(cs)), Tail(cs))
  ELSE NumberExp(neg, int, 0, cs)

\* int: 0 | digit1-9 digit*
NumberInt(neg, int, cs) ==
  IF int = <<>> \/ (Len(int) > 1 /\ Head(int) = "0") THEN ParseFail
  ELSE NumberFrac(neg, int, Drop(cs, Len(int)))

\* number: -? int frac? exp?
ParseNumber(cs) ==
  IF cs # <<>> /\ Head(cs) = "-"
  THEN NumberInt(TRUE, TakeDigits(Tail(cs)), Tail(cs))
  ELSE NumberInt(FALSE, TakeDigits(cs), cs)

RECURSIVE ScanString(_, _)
\* the characters up to the closing quote, \" and \\ unescaped
ScanString(cs, acc) ==
  IF cs = <<>> THEN ParseFail
  ELSE IF Head(cs) = "\"" THEN Parsed(Str(acc), Tail(cs))
  ELSE IF Head(cs) = "\\"
  THEN IF Len(cs) >= 2 /\ cs[2] \in {"\"", "\\"}
       THEN ScanString(Drop(cs, 2), Append(acc, cs[2]))
       ELSE ParseFail
  ELSE ScanString(Tail(cs), Append(acc, Head(cs)))

\* CreateDataProperty on the object being built: a repeated key keeps its place
\* and takes the later value
SetProp(props, key, v) ==
  IF \E j \in 1..Len(props) : props[j][1] = key
  THEN [j \in 1..Len(props) |->
          IF props[j][1] = key THEN <<key, v>> ELSE props[j]]
  ELSE Append(props, <<key, v>>)

RECURSIVE ParseValue(_), ParseElements(_, _), ParseMembers(_, _)
\* object: { } | { members }, cs after the brace and its whitespace
ParseObject(cs) ==
  IF cs # <<>> /\ Head(cs) = "}" THEN Parsed(Obj(<<>>), Tail(cs))
  ELSE ParseMembers(cs, <<>>)

\* array: [ ] | [ elements ], cs after the bracket and its whitespace
ParseArray(cs) ==
  IF cs # <<>> /\ Head(cs) = "]" THEN Parsed(Arr(<<>>), Tail(cs))
  ELSE ParseElements(cs, <<>>)

\* value, at its first character
ParseValueAt(cs) ==
  IF cs = <<>> THEN ParseFail
  ELSE IF Head(cs) = "{" THEN ParseObject(SkipWS(Tail(cs)))
  ELSE IF Head(cs) = "[" THEN ParseArray(SkipWS(Tail(cs)))
  ELSE IF Head(cs) = "\"" THEN ScanString(Tail(cs), <<>>)
  ELSE IF Head(cs) = "-" \/ IsDigit(Head(cs)) THEN ParseNumber(cs)
  ELSE IF StartsWith(cs, NullChars) THEN Parsed(Null, Drop(cs, 4))
  ELSE IF StartsWith(cs, TrueChars) THEN Parsed(Bool(TRUE), Drop(cs, 4))
  ELSE IF StartsWith(cs, FalseChars) THEN Parsed(Bool(FALSE), Drop(cs, 5))
  ELSE ParseFail

\* value, with the whitespace before it
ParseValue(text) == ParseValueAt(SkipWS(text))

\* after the elements items: , elements | ]
ElementsNext(items, cs) ==
  IF cs = <<>> THEN ParseFail
  ELSE IF Head(cs) = "]" THEN Parsed(Arr(items), Tail(cs))
  ELSE IF Head(cs) = "," THEN ParseElements(Tail(cs), items)
  ELSE ParseFail

\* the element r was read
ElementRead(r, acc) ==
  IF ~r.ok THEN ParseFail ELSE ElementsNext(Append(acc, r.value), SkipWS(r.rest))

\* elements: value (, value)* ]
ParseElements(cs, acc) == ElementRead(ParseValue(cs), acc)

\* after the members props: , members | }
MembersNext(props, cs) ==
  IF cs = <<>> THEN ParseFail
  ELSE IF Head(cs) = "}" THEN Parsed(Obj(props), Tail(cs))
  ELSE IF Head(cs) = "," THEN ParseMembers(Tail(cs), props)
  ELSE ParseFail

\* the value r of the member key was read
MemberRead(key, r, acc) ==
  IF ~r.ok THEN ParseFail
  ELSE MembersNext(SetProp(acc, key, r.value), SkipWS(r.rest))

\* after the member's key: the colon and the value
MemberColon(key, cs, acc) ==
  IF cs # <<>> /\ Head(cs) = ":" THEN MemberRead(key, ParseValue(Tail(cs)), acc)
  ELSE ParseFail

\* the key k of a member was read
MemberKey(k, acc) ==
  IF ~k.ok THEN ParseFail ELSE MemberColon(k.value.cs, SkipWS(k.rest), acc)

\* a member, at its first character
MemberAt(cs, acc) ==
  IF cs # <<>> /\ Head(cs) = "\"" THEN MemberKey(ScanString(Tail(cs), <<>>), acc)
  ELSE ParseFail

\* members: string : value (, string : value)* }
ParseMembers(text, acc) == MemberAt(SkipWS(text), acc)

\* what JSON.parse gives when the text holds the value r
ParseResult(r) ==
  IF r.ok /\ SkipWS(r.rest) = <<>> THEN Return(r.value)
  ELSE Throw(Error("SyntaxError", "Unexpected token in JSON"))

\* JSON.parse(text): the value, or a SyntaxError
JSONParse(cs) == ParseResult(ParseValue(cs))

(***************************************************************************)
(* The io-ts combinators that index.ts uses.  A codec is the tree of its   *)
(* construction; TypeName, Is, Validate and Encode are the four members of *)
(* io.Type.                                                                *)
(***************************************************************************)
string == [tag |-> "string"]

number == [tag |-> "number"]

null == [tag |-> "null"]

undefined == [tag |-> "undefined"]

never == [tag |-> "never"]

literal(v) == [tag |-> "literal", value |-> v]

\* props: <<key, codec>> in the order written
type(props) == [tag |-> "type", props |-> props]

partial(props) == [tag |-> "partial", props |-> props]

union(codecs) == [tag |-> "union", codecs |-> codecs]

intersection(codecs) == [tag |-> "intersection", codecs |-> codecs]

array(item) == [tag |-> "array", item |-> item]

tuple(codecs) == [tag |-> "tuple", codecs |-> codecs]

\* predicate and name: the refinement's name, which also names its predicate
brand(codec, name) == [tag |-> "brand", codec |-> codec, name |-> name]

\* a.pipe(b)
pipe(a, b) == [tag |-> "pipe", a |-> a, b |-> b]

\* new io.Type(name, is, validate, encode), its three functions named by name
custom(name) == [tag |-> "custom", name |-> name]

RECURSIVE JoinWith(_, _)
\* names.join(sep)
JoinWith(names, sep) ==
  IF names = <<>> THEN ""
  ELSE IF Len(names) = 1 THEN names[1]
  ELSE names[1] \o sep \o JoinWith(Tail(names), sep)

RECURSIVE TypeName(_), InterfaceName(_)
\* the name io-ts gives a codec
TypeName(c) ==
  CASE c.tag \in {"string", "number", "null", "undefined", "never"} -> c.tag
    [] c.tag = "literal" -> Join(JSONStringify(c.value).value.cs)
    [] c.tag = "type" -> InterfaceName(c.props)
    [] c.tag = "partial" -> "Partial<" \o InterfaceName(c.props) \o ">"
    [] c.tag = "union" ->
         "(" \o JoinWith([j \in 1..Len(c.codecs) |-> TypeName(c.codecs[j])],
                         " | ") \o ")"
    [] c.tag = "intersection" ->
         "(" \o JoinWith([j \in 1..Len(c.codecs) |-> TypeName(c.codecs[j])],
                         " & ") \o ")"
    [] c.tag = "array" -> "Array<" \o TypeName(c.item) \o ">"
    [] c.tag = "tuple" ->
         "[" \o JoinWith([j \in 1..Len(c.codecs) |-> TypeName(c.codecs[j])],
                         ", ") \o "]"
    [] c.tag = "brand" -> c.name
    [] c.tag = "custom" -> c.name
    [] c.tag = "pipe" ->
         "pipe(" \o TypeName(c.a) \o ", " \o TypeName(c.b) \o ")"

\* getInterfaceTypeName: { key: name, ... }
InterfaceName(props) ==
  "{ " \o JoinWith([j \in 1..Len(props) |->
             Join(props[j][1]) \o ": " \o TypeName(props[j][2])], ", ")
       \o " }"

\* a === b
StrictEquals(a, b) ==
  IF a.t = "number" /\ b.t = "number"
  THEN /\ a.k # "NaN" /\ b.k # "NaN"
       /\ \/ a = b
          \/ a.k = "finite" /\ b.k = "finite" /\ a.coef = 0 /\ b.coef = 0
  ELSE a = b

\* n >= 0, for a number n
AtLeastZero(n) ==
  n.k # "NaN" /\ (~n.neg \/ (n.k = "finite" /\ n.coef = 0))

RECURSIVE Reverse(_)
Reverse(cs) == IF cs = <<>> THEN <<>> ELSE Append(Reverse(Tail(cs)), Head(cs))

\* the predicate of a refinement
Predicate(name, a) ==
  CASE name = "Positive" -> AtLeastZero(a)
    [] name = "Palindrome" -> Reverse(a.cs) = a.cs

\* UnknownRecord.is
IsRecord(u) == u.t = "object"

\* every encode of the codecs is io.identity
RECURSIVE UseIdentity(_)
UseIdentity(c) ==
  CASE c.tag \in {"string", "number", "null", "undefined", "literal"} -> TRUE
    [] c.tag \in {"never", "custom"} -> FALSE
    [] c.tag \in {"type", "partial"} ->
         \A j \in 1..Len(c.props) : UseIdentity(c.props[j][2])
    [] c.tag \in {"union", "intersection", "tuple"} ->
         \A j \in 1..Len(c.codecs) : UseIdentity(c.codecs[j])
    [] c.tag = "array" -> UseIdentity(c.item)
    [] c.tag = "brand" -> UseIdentity(c.codec)
    [] c.tag = "pipe" -> UseIdentity(c.a) /\ UseIdentity(c.b)

\* a[key] = v on a record
Assign(a, key, v) == Obj(SetProp(a.props, key, v))

RECURSIVE MergeInto(_, _, _, _)
\* mergeAll's loop over one u: r[k] = u[k] for each key new to r or changed
MergeInto(r, props, base, baseIsNotADictionary) ==
  IF props = <<>> THEN r
  ELSE LET k == Head(props)[1]
           v == Head(props)[2]
           rr == IF \/ ~HasKey(r, k)
                    \/ baseIsNotADictionary
                    \/ ~StrictEquals(v, Get(base, k))
                 THEN Assign(r, k, v) ELSE r
       IN  MergeInto(rr, Tail(props), base, baseIsNotADictionary)

RECURSIVE MergeEach(_, _, _)
MergeEach(r, us, base) ==
  IF us = <<>> THEN r
  ELSE MergeEach(MergeInto(r, IF IsRecord(Head(us)) THEN Head(us).props ELSE <<>>,
                           base, ~IsRecord(base)),
                 Tail(us), base)

\* io-ts mergeAll(base, us): the value of an intersection
MergeAll(base, us) ==
  IF \A j \in 1..Len(us) : us[j] = base THEN base
  ELSE IF \A j \in 1..Len(us) : ~IsRecord(us[j]) THEN us[Len(us)]
  ELSE MergeEach(Obj(<<>>), us, base)

\* io.success(value) when the call returned, io.failure(u, c) when it threw
SuccessOrFailure(r) == IF r.kind = "return" THEN Right(r.value) ELSE Left

RECURSIVE Validate(_, _), ValidateType(_, _, _), ValidatePartial(_, _, _),
          ValidateUnion(_, _)
\* codec.validate(u, context): right(value) or left(errors)
Validate(c, u) ==
  CASE c.tag = "string" -> IF u.t = "string" THEN Right(u) ELSE Left
    [] c.tag = "number" -> IF u.t = "number" THEN Right(u) ELSE Left
    [] c.tag = "null" -> IF u.t = "null" THEN Right(u) ELSE Left
    [] c.tag = "undefined" -> IF u.t = "undefined" THEN Right(u) ELSE Left
    [] c.tag = "never" -> Left
    [] c.tag = "literal" -> IF StrictEquals(u, c.value) THEN Right(u) ELSE Left
    [] c.tag = "type" ->
         IF IsRecord(u) THEN ValidateType(c.props, u, FALSE) ELSE Left
    [] c.tag = "partial" ->
         IF IsRecord(u) THEN ValidatePartial(c.props, u, FALSE) ELSE Left
    [] c.tag = "union" -> ValidateUnion(c.codecs, u)
    [] c.tag = "intersection" ->
         LET rs == [j \in 1..Len(c.codecs) |-> Validate(c.codecs[j], u)]
         IN  IF \E j \in 1..Len(rs) : ~rs[j].ok THEN Left
             ELSE Right(MergeAll(u, [j \in 1..Len(rs) |-> rs[j].value]))
    [] c.tag = "array" ->
         IF u.t # "array" THEN Left
         ELSE LET rs == [j \in 1..Len(u.items) |-> Validate(c.item, u.items[j])]
              IN  IF \E j \in 1..Len(rs) : ~rs[j].ok THEN Left
                  ELSE Right(Arr([j \in 1..Len(rs) |-> rs[j].value]))
    [] c.tag = "tuple" ->
         IF u.t # "array" THEN Left
         ELSE LET len == Len(c.codecs)
                  at(j) == IF j <= Len(u.items) THEN u.items[j] ELSE Undefined
                  rs == [j \in 1..len |-> Validate(c.codecs[j], at(j))]
                  \* t[j] = va is only done for a changed component
                  n  == IF Len(u.items) >= len THEN len
                        ELSE LET set == {j \in 1..len :
                                           j > Len(u.items)
                                           /\ rs[j].ok /\ rs[j].value # Undefined}
                             IN  IF set = {} THEN Len(u.items)
                                 ELSE CHOOSE j \in set : \A i \in set : i <= j
              IN  IF \/ \E j \in 1..len : ~rs[j].ok
                     \/ Len(u.items) > len
                  THEN Left
                  ELSE Right(Arr([j \in 1..n |-> rs[j].value]))
    [] c.tag = "brand" ->
         LET r == Validate(c.codec, u)
         IN  IF r.ok /\ Predicate(c.name, r.value) THEN r ELSE Left
    [] c.tag = "pipe" ->
         LET e == Validate(c.a, u)
         IN  IF ~e.ok THEN e ELSE Validate(c.b, e.value)
    [] c.tag = "custom" /\ c.name = "Date" ->
         \* Number.isFinite(u) ? io.success(new Date(u)) : io.failure(u, c)
         IF u.t = "number" /\ u.k = "finite" THEN Right(NewDate(u)) ELSE Left
    [] c.tag = "custom" /\ c.name = "FromJSON" ->
         \* try io.success(JSON.parse(u)) catch io.failure(u, c)
         SuccessOrFailure(JSONParse(u.cs))

\* io.type's loop over its properties, a the record it returns
ValidateType(props, a, failed) ==
  IF props = <<>> THEN (IF failed THEN Left ELSE Right(a))
  ELSE LET k  == Head(props)[1]
           ak == Get(a, k)
           r  == Validate(Head(props)[2], ak)
       IN  IF ~r.ok THEN ValidateType(Tail(props), a, TRUE)
           ELSE IF r.value # ak \/ (r.value = Undefined /\ ~HasKey(a, k))
           THEN ValidateType(Tail(props), Assign(a, k, r.value), failed)
           ELSE ValidateType(Tail(props), a, failed)

\* io.partial's loop: a failure on undefined is no error
ValidatePartial(props, a, failed) ==
  IF props = <<>> THEN (IF failed THEN Left ELSE Right(a))
  ELSE LET k  == Head(props)[1]
           ak == Get(a, k)
           r  == Validate(Head(props)[2], ak)
       IN  IF ~r.ok THEN ValidatePartial(Tail(props), a, failed \/ ak # Undefined)
           ELSE IF r.value # ak
           THEN ValidatePartial(Tail(props), Assign(a, k, r.value), failed)
           ELSE ValidatePartial(Tail(props), a, failed)

\* io.union: the first codec that accepts u
ValidateUnion(codecs, u) ==
  IF codecs = <<>> THEN Left
  ELSE LET r == Validate(Head(codecs), u)
       IN  IF r.ok THEN r ELSE ValidateUnion(Tail(codecs), u)

RECURSIVE Encode(_, _)
\* codec.encode(a): io.identity for the codecs built of identity encoders
Encode(c, a) ==
  CASE UseIdentity(c) -> Return(a)
    [] c.tag = "never" -> Throw(Error("Error", "cannot encode never"))
    [] c.tag = "custom" /\ c.name = "Date" -> ToISOString(a)
    [] c.tag = "custom" /\ c.name = "FromJSON" -> JSONStringify(a)
    [] c.tag = "brand" -> Encode(c.codec, a)
    [] c.tag = "pipe" ->
         \* b => this.encode(ab.encode(b))
         LET r == Encode(c.b, a)
         IN  IF r.kind = "throw" THEN r ELSE Encode(c.a, r.value)

(***************************************************************************)
(* The codecs of index.ts.                                                 *)
(***************************************************************************)
\* the property names of the types
K ==
  [name |-> <<"n", "a", "m", "e">>,
   age |-> <<"a", "g", "e">>,
   falsyValue |-> <<"f", "a", "l", "s", "y", "V", "a", "l", "u", "e">>,
   arrayOfTuples |-> <<"a", "r", "r", "a", "y", "O", "f", "T", "u", "p", "l", "e", "s">>,
   type |-> <<"t", "y", "p", "e">>,
   value |-> <<"v", "a", "l", "u", "e">>,
   sku |-> <<"s", "k", "u">>,
   status |-> <<"s", "t", "a", "t", "u", "s">>,
   body |-> <<"b", "o", "d", "y">>,
   self |-> <<"s", "e", "l", "f">>,
   n |-> <<"n">>]

User == type(<< <<K.name, string>>, <<K.age, number>> >>)

\* a ComplexObject whose arrayOfTuples is required
ComplexObjectRequired ==
  type(<< <<K.falsyValue,
            union(<<null, undefined, literal(Bool(FALSE)), literal(Num(0)),
                    literal(Str(<<>>))>>)>>,
          <<K.arrayOfTuples, array(tuple(<<number, string>>))>> >>)

ComplexObject ==
  intersection(<<
    type(<< <<K.falsyValue,
              union(<<null, undefined, literal(Bool(FALSE)), literal(Num(0)),
                      literal(Str(<<>>))>>)>> >>),
    partial(<< <<K.arrayOfTuples, array(tuple(<<number, string>>))>> >>) >>)

Positive == brand(number, "Positive")

Palindrome == brand(string, "Palindrome")

Either(A, B) ==
  union(<<type(<< <<K.type, literal(Str(<<"l", "e", "f", "t">>))>>,
                  <<K.value, A>> >>),
          type(<< <<K.type, literal(Str(<<"r", "i", "g", "h", "t">>))>>,
                  <<K.value, B>> >>)>>)

NumberOrString == Either(number, string)

CustomResult == never

DateType == custom("Date")

StringToNumber == never

FromJSON == custom("FromJSON")

Product == type(<< <<K.sku, string>> >>)

ProductFromJSON == pipe(pipe(string, FromJSON), Product)

ProductFromBase64JSON == never

\* the codecs, by the name of the constant that holds each
CodecIds ==
  {"User", "ComplexObject", "Positive", "Palindrome", "NumberOrString",
   "CustomResult", "DateType", "StringToNumber", "FromJSON", "Product",
   "ProductFromJSON", "ProductFromBase64JSON"}

CodecOf(id) ==
  CASE id = "User" -> User
    [] id = "ComplexObject" -> ComplexObject
    [] id = "Positive" -> Positive
    [] id = "Palindrome" -> Palindrome
    [] id = "NumberOrString" -> NumberOrString
    [] id = "CustomResult" -> CustomResult
    [] id = "DateType" -> DateType
    [] id = "StringToNumber" -> StringToNumber
    [] id = "FromJSON" -> FromJSON
    [] id = "Product" -> Product
    [] id = "ProductFromJSON" -> ProductFromJSON
    [] id = "ProductFromBase64JSON" -> ProductFromBase64JSON

\* the codec objects as the module holds them once it is loaded: the name
\* each was constructed with, and its construction
Registry0 ==
  [id \in CodecIds |-> [name |-> TypeName(CodecOf(id)), type |-> CodecOf(id)]]

(***************************************************************************)
(* util.ts                                                                 *)
(***************************************************************************)
\* a template literal's ${x}, for undefined or a string
TemplateString(x) == IF x.t = "undefined" THEN "undefined" ELSE Join(x.cs)

\* a TypeError that does not name the codec
NotValidUnnamed(s, codec) ==
  IF s.kind = "throw" THEN s
  ELSE Throw(Error("TypeError", TemplateString(s.value) \o " is not valid"))

\* a TypeError in the place of a throw of JSON.stringify
NotValidFallback(s, codec) ==
  Throw(Error("TypeError",
              (IF s.kind = "throw" THEN "[object Object]"
               ELSE TemplateString(s.value))
                \o " is not a valid " \o codec.name))

\* the TypeError decode throws, s being what JSON.stringify(value) gave; a
\* throw of JSON.stringify goes on to the caller
NotValid(s, codec) ==
  IF s.kind = "throw" THEN s
  ELSE Throw(Error("TypeError",
                   TemplateString(s.value) \o " is not a valid " \o codec.name))

\* a getOrElse that hands the input back in the place of the decoded value
getOrElseInput(e, codec, value) ==
  IF e.ok THEN Return(value) ELSE NotValid(JSONStringify(value), codec)

\* getOrElse(onLeft)(e), onLeft throwing
getOrElse(e, codec, value) ==
  IF e.ok THEN Return(e.value) ELSE NotValid(JSONStringify(value), codec)

\* a decode that keeps what it gave last for the codec, whatever the value
decodeMemo(codec, value) ==
  IF last.op = "decode" /\ registry[last.codec] = codec THEN last.outcome
  ELSE getOrElse(Validate(codec.type, value), codec, value)

\* decode(codec)(value): pipe(value, codec.decode, getOrElse(...))
decode(codec, value) == getOrElse(Validate(codec.type, value), codec, value)

\* an encode that refuses what the codec does not validate
encodeChecked(codec, value) ==
  IF Validate(codec.type, value).ok THEN Encode(codec.type, value)
  ELSE Throw(Error("TypeError", "cannot encode"))

\* encode(codec)(value)
encode(codec, value) == Encode(codec.type, value)

(***************************************************************************)
(* The values the callers pass: those of index.ts's tests and examples,    *)
(* and neighbours of them.                                                 *)
(***************************************************************************)
\* the strings of the tests and examples, and neighbours of them
S ==
  [John |-> Str(<<"J", "o", "h", "n">>),
   empty |-> Str(<<>>),
   a |-> Str(<<"a">>),
   b |-> Str(<<"b">>),
   foo |-> Str(<<"f", "o", "o">>),
   bar |-> Str(<<"b", "a", "r">>),
   racecar |-> Str(<<"r", "a", "c", "e", "c", "a", "r">>),
   hello |-> Str(<<"h", "e", "l", "l", "o">>),
   phone |-> Str(<<"p", "h", "o", "n", "e">>),
   book |-> Str(<<"b", "o", "o", "k">>),
   left |-> Str(<<"l", "e", "f", "t">>),
   right |-> Str(<<"r", "i", "g", "h", "t">>),
   s1 |-> Str(<<"1">>),
   s1_1 |-> Str(<<"1", ".", "1">>),
   s1e1 |-> Str(<<"1", "e", "1">>),
   s10 |-> Str(<<"1", "0">>),
   s1e999 |-> Str(<<"1", "e", "9", "9", "9">>),
   minus0 |-> Str(<<"-", "0">>),
   phoneJSON |->
     Str(<<"{", "\"", "s", "k", "u", "\"", ":", " ", "\"", "p", "h", "o", "n",
      "e", "\"", "}">>),
   phoneHugeJSON |->
     Str(<<"{", "\"", "s", "k", "u", "\"", ":", "\"", "p", "h", "o", "n", "e",
      "\"", ",", "\"", "n", "\"", ":", "1", "e", "9", "9", "9", "}">>),
   skuNumberJSON |-> Str(<<"{", "\"", "s", "k", "u", "\"", ":", "1", "}">>),
   brokenJSON |-> Str(<<"{", "\"", "s", "k", "u", "\"", ":">>),
   quotedJSON |-> Str(<<"\"", "a", "\\", "\"", "b", "\"">>),
   HelloWorld |->
     Str(<<"H", "e", "l", "l", "o", " ", "w", "o", "r", "l", "d">>),
   Unauthorized |->
     Str(<<"U", "n", "a", "u", "t", "h", "o", "r", "i", "z", "e", "d">>),
   Forbidden |-> Str(<<"F", "o", "r", "b", "i", "d", "d", "e", "n">>),
   NotFound |-> Str(<<"N", "o", "t", " ", "f", "o", "u", "n", "d">>),
   InternalServerError |->
     Str(<<"I", "n", "t", "e", "r", "n", "a", "l", " ", "s", "e", "r", "v", "e",
      "r", " ", "e", "r", "r", "o", "r">>)]

\* 1.1
N_1_1 == Finite(FALSE, 11, -1)

\* 946_684_800_000
timestampDate == Finite(FALSE, 9466848, 5)

Statuses == {Num(200), Num(401), Num(403), Num(404), Num(500)}

Strings == {S[f] : f \in DOMAIN S}

Numbers ==
  {Num(0), Minus(Num(0)), Num(1), Minus(Num(1)), Num(2), Num(4), Num(10),
   Num(42), N_1_1, Finite(FALSE, 15, -1), Finite(FALSE, 1, 300), timestampDate, NaN, Infinity, NegInfinity}
  \cup Statuses

Scalars == {Undefined, Null, Bool(TRUE), Bool(FALSE)}

Users ==
  {Obj(<< <<K.name, S.John>>, <<K.age, Num(42)>> >>),
   Obj(<< <<K.name, S.John>> >>),
   Obj(<< <<K.age, Num(42)>> >>),
   Obj(<<>>),
   Obj(<< <<K.name, S.John>>, <<K.age, Num(42)>>, <<K.self, Cycle>> >>),
   Obj(<< <<K.name, S.John>>, <<K.self, Cycle>> >>)}

Eithers ==
  {Obj(<< <<K.type, S.left>>, <<K.value, Num(1)>> >>),
   Obj(<< <<K.type, S.right>>, <<K.value, S.foo>> >>),
   Obj(<< <<K.type, S.right>>, <<K.value, Num(1)>> >>),
   Obj(<< <<K.type, S.left>>, <<K.value, S.foo>> >>)}

Products ==
  {Obj(<< <<K.sku, S.phone>> >>),
   Obj(<< <<K.sku, S.book>> >>),
   Obj(<< <<K.sku, Num(1)>> >>),
   Obj(<< <<K.sku, S.phone>>, <<K.self, Cycle>> >>),
   Obj(<< <<K.sku, S.phone>>, <<K.n, Infinity>> >>)}

Bodies ==
  {S.HelloWorld, S.Unauthorized, S.Forbidden, S.NotFound,
   S.InternalServerError, Num(1)}

\* {status, body}
Result(status, body) == Obj(<< <<K.status, status>>, <<K.body, body>> >>)

Results == {Result(s, b) : s \in Statuses, b \in Bodies}

FalsyValues ==
  {Null, Undefined, Bool(FALSE), Num(0), Minus(Num(0)), S.empty,
   Bool(TRUE), Num(1), S.foo, NaN}

\* what an arrayOfTuples may hold: pairs, and what is no pair
TupleElems ==
  {Arr(<<Num(1), S.a>>), Arr(<<Num(2), S.b>>), Arr(<<Num(1)>>),
   Arr(<<Num(1), S.a, Bool(TRUE)>>), Num(1)}

TupleArrays ==
  {Arr(items) : items \in UNION {[1..k -> TupleElems] : k \in 0..MaxTuples}}

\* an object with property key of each value of vs, and without it
WithOptional(key, vs) == {<<>>} \cup {<< <<key, v>> >> : v \in vs}

ComplexObjects ==
  {Obj(f \o a) :
     f \in WithOptional(K.falsyValue, FalsyValues),
     a \in WithOptional(K.arrayOfTuples,
                        TupleArrays \cup {Undefined, Null, S.foo})}

Common ==
  Scalars \cup Strings \cup Numbers \cup Users \cup Eithers \cup Products
    \cup {Arr(<<>>), Arr(<<Num(1), S.a>>), NewDate(timestampDate)}

\* the inputs of decode(codec): of the codec's input type I
Inputs(id) ==
  CASE id = "DateType" -> Numbers
    [] id = "FromJSON" -> Strings
    [] id = "ComplexObject" -> Common \cup ComplexObjects
    [] id = "CustomResult" -> Common \cup Results
    [] OTHER -> Common

\* the arguments of encode(codec): of the codec's type A, and for the codecs
\* left as io.never what the tests pass
EncodeValues(id) ==
  CASE id = "DateType" -> {NewDate(x) : x \in Numbers}
    [] id = "FromJSON" -> Common
    [] id = "ProductFromJSON" -> {v \in Common : Validate(Product, v).ok}
    [] id = "StringToNumber" -> {Num(1), N_1_1, Num(10)}
    [] id = "ProductFromBase64JSON" -> {Obj(<< <<K.sku, S.book>> >>)}
    [] id = "CustomResult" -> {Result(Num(200), S.HelloWorld)}
    [] OTHER -> {v \in Inputs(id) : Validate(CodecOf(id), v).ok}

\* whether v is of the codec's input type I
AcceptsInput(id, v) ==
  CASE id = "DateType" -> v.t = "number"
    [] id = "FromJSON" -> v.t = "string"
    [] OTHER -> TRUE

\* the calls made after the first one, besides those that continue it
LaterDecodes ==
  {<<"User", Obj(<< <<K.name, S.John>>, <<K.age, Num(42)>> >>)>>,
   <<"User", Obj(<< <<K.name, S.John>> >>)>>,
   <<"Positive", Num(4)>>,
   <<"Positive", Minus(Num(1))>>,
   <<"FromJSON", S.s1e1>>,
   <<"FromJSON", S.foo>>}

LaterEncodes ==
  {<<"DateType", NewDate(timestampDate)>>,
   <<"FromJSON", Num(10)>>}

(***************************************************************************)
(* The state: the codec objects, and what the callers have seen.           *)
(*   registry  the codec objects of the module                             *)
(*   trip      the first call, then the encode of what it decoded, then    *)
(*             the decode of what that encoded, as far as they were made   *)
(*   last      the call made last                                          *)
(***************************************************************************)
Call(op, id, arg, outcome) ==
  [op |-> op, codec |-> id, arg |-> arg, outcome |-> outcome]

NoCall == Call("none", "", Undefined, Return(Undefined))

Returned(call) == call.outcome.kind = "return"

\* the round trip goes on with this call
ContinuesTrip(op, id, arg) ==
  /\ trip # <<>>
  /\ trip[1].op = "decode"
  /\ id = trip[1].codec
  /\ Returned(trip[Len(trip)])
  /\ arg = trip[Len(trip)].outcome.value
  /\ \/ Len(trip) = 1 /\ op = "encode"
     \/ Len(trip) = 2 /\ op = "decode" /\ AcceptsInput(id, arg)

Record(rec) ==
  /\ last' = rec
  /\ trip' = IF trip = <<>> THEN <<rec>>
             ELSE IF ContinuesTrip(rec.op, rec.codec, rec.arg)
             THEN Append(trip, rec)
             ELSE trip
  /\ UNCHANGED registry

\* what the last step of the round trip returned, to be handed to the next
Passed ==
  IF trip # <<>> /\ Len(trip) < 3 /\ Returned(trip[Len(trip)])
  THEN {trip[Len(trip)].outcome.value}
  ELSE {}

\* a caller calls decode(codec)(value)
DecodeCall(id, value) ==
  Record(Call("decode", id, value, decode(registry[id], value)))

\* a caller calls encode(codec)(value)
EncodeCall(id, value) ==
  Record(Call("encode", id, value, encode(registry[id], value)))

\* the calls a caller makes after the first one: the first call again, the
\* next step of the round trip, or one of the later calls
Again(op) ==
  IF trip[1].op = op THEN {<<trip[1].codec, trip[1].arg>>} ELSE {}

Onward(op) ==
  {<<trip[1].codec, v>> : v \in {w \in Passed : ContinuesTrip(op, trip[1].codec, w)}}

Init == /\ registry = Registry0
        /\ trip = <<>>
        /\ last = NoCall

Next ==
  \/ /\ trip = <<>>
     /\ \E id \in CodecIds : \E value \in Inputs(id) : DecodeCall(id, value)
  \/ /\ trip = <<>>
     /\ \E id \in CodecIds : \E value \in EncodeValues(id) :
          EncodeCall(id, value)
  \/ /\ trip # <<>>
     /\ \E c \in LaterDecodes \cup Again("decode") \cup Onward("decode") :
          DecodeCall(c[1], c[2])
  \/ /\ trip # <<>>
     /\ \E c \in LaterEncodes \cup Again("encode") \cup Onward("encode") :
          EncodeCall(c[1], c[2])

Spec == Init /\ [][Next]_vars

(***************************************************************************)
(* The properties.                                                         *)
(***************************************************************************)
\* what the codec of the last call gives for its argument
LastValidation == Validate(registry[last.codec].type, last.arg)

\* JSON.stringify of the last call's argument
LastText == JSONStringify(last.arg)

\* x + s for x a string or undefined: ToString(x) followed by s
PlusString(x, s) == (IF x.t = "undefined" THEN "undefined" ELSE Join(x.cs)) \o s

LastDecodeFailed == last.op = "decode" /\ ~LastValidation.ok

\* C1: when codec.validate(i) succeeds with v, decode(codec)(i) returns v
C1_DecodeReturnsValidated ==
  last.op = "decode" /\ LastValidation.ok
    => last.outcome = Return(LastValidation.value)

\* a decode that returned a value that is not its input
C1_Witness ==
  /\ last.op = "decode" /\ LastValidation.ok
  /\ Returned(last) /\ last.outcome.value # last.arg

\* C2 as claimed: whenever codec.validate(i) fails, decode(codec)(i) throws a
\* TypeError whose message is JSON.stringify(i) + " is not a valid " + name
C2_Original ==
  LastDecodeFailed
    => /\ last.outcome.kind = "throw"
       /\ last.outcome.error.class = "TypeError"
       /\ LastText.kind = "return"
       /\ last.outcome.error.message
            = PlusString(LastText.value,
                         " is not a valid " \o registry[last.codec].name)

\* C2 amended: whenever codec.validate(i) fails and JSON.stringify(i) returns,
\* decode(codec)(i) returns nothing and throws a TypeError whose message is
\* JSON.stringify(i) + " is not a valid " + name
C2_FailureMessage ==
  LastDecodeFailed /\ LastText.kind = "return"
    => last.outcome
         = Throw(Error("TypeError",
                       PlusString(LastText.value,
                                  " is not a valid "
                                    \o registry[last.codec].name)))

\* a decode of an object that its codec refused and JSON.stringify wrote
C2_Witness ==
  /\ LastDecodeFailed /\ LastText.kind = "return"
  /\ last.arg.t = "object" /\ last.outcome.kind = "throw"

\* C3: encode(codec)(v) ends as codec.encode(v) does: with the same value, or
\* with the same error
C3_EncodeDelegates ==
  last.op = "encode"
    => last.outcome = Encode(registry[last.codec].type, last.arg)

\* an encode that threw what the codec's encode threw
C3_Witness ==
  /\ last.op = "encode" /\ last.outcome.kind = "throw"
  /\ last.outcome.error.class = "RangeError"

\* a == b on what two decodes returned: the same value, +0 and -0 alike
SameDecoded(a, b) == a = b \/ (a.t = "number" /\ StrictEquals(a, b))

\* C4: with i accepted, decoding encode(codec)(decode(codec)(i)) succeeds and
\* gives a value equal to decode(codec)(i)
C4_RoundTrip ==
  Len(trip) = 3
    => /\ Returned(trip[3])
       /\ SameDecoded(trip[3].outcome.value, trip[1].outcome.value)

\* the calls seen: the last one and those of the round trip
Seen == {last} \cup {trip[j] : j \in 1..Len(trip)}

C6_SerializationErrorPropagates ==
  LastDecodeFailed /\ LastText.kind = "throw" => last.outcome = LastText

\* a decode of a cyclic object that its codec refused
C6_Witness ==
  /\ LastDecodeFailed /\ LastText.kind = "throw"
  /\ last.outcome.kind = "throw"

\* falsyValue: null | undefined | false | 0 | ''
IsFalsyValue(v) ==
  \E a \in {Null, Undefined, Bool(FALSE), Num(0), S.empty} : StrictEquals(v, a)

\* [number, string]
IsNumberStringPair(e) ==
  /\ e.t = "array" /\ Len(e.items) = 2
  /\ e.items[1].t = "number" /\ e.items[2].t = "string"

IsPairArray(v) ==
  v.t = "array" /\ \A j \in 1..Len(v.items) : IsNumberStringPair(v.items[j])

IsCustomResult(r) ==
  LET status == Get(r, K.status)
      body   == Get(r, K.body)
  IN  \/ status = Num(200) /\ body.t = "string"
      \/ status = Num(401) /\ body = S.Unauthorized
      \/ status = Num(403) /\ body = S.Forbidden
      \/ status = Num(404) /\ body = S.NotFound
      \/ status = Num(500) /\ body = S.InternalServerError

\* C8: decode(CustomResult)(r) returns for r a CustomResult, and throws a
\* TypeError for r whose body is not the one of its status
C8_CustomResult ==
  last.op = "decode" /\ last.codec = "CustomResult" /\ last.arg \in Results
    => IF IsCustomResult(last.arg) THEN Returned(last)
       ELSE /\ last.outcome.kind = "throw"
            /\ last.outcome.error.class = "TypeError"

\* the numeric strings of the test, the number each denotes, and its string
NumericStrings ==
  {<<S.s1, Num(1), S.s1>>, <<S.s1_1, N_1_1, S.s1_1>>, <<S.s1e1, Num(10), S.s10>>}

\* C9: decode(StringToNumber) gives the number a numeric string denotes and
\* NaN for another string; encode(StringToNumber) gives the number's string
C9_StringToNumber ==
  last.codec = "StringToNumber"
    => /\ \A e \in NumericStrings :
            /\ last.op = "decode" /\ last.arg = e[1]
                 => last.outcome = Return(e[2])
            /\ last.op = "encode" /\ last.arg = e[2]
                 => last.outcome = Return(e[3])
       /\ last.op = "decode" /\ last.arg \in {S.foo, S.bar}
            => last.outcome = Return(NaN)

\* n > 0
IsPositive(n) == n.k # "NaN" /\ ~n.neg /\ ~(n.k = "finite" /\ n.coef = 0)

\* C10: decode(Positive)(n) returns n exactly when the number n is positive,
\* and throws the TypeError of a failed validation otherwise
C10_Positive ==
  last.op = "decode" /\ last.codec = "Positive" /\ last.arg.t = "number"
    => IF IsPositive(last.arg) THEN last.outcome = Return(last.arg)
       ELSE /\ last.outcome.kind = "throw"
            /\ last.outcome.error.class = "TypeError"
====
